---- MODULE Spec2Model ----
(***************************************************************************)
(* Glendale fire-risk pipeline: the risk classification engine             *)
(* (scripts/build_risk_model.py), the terrain derivative engine            *)
(* (scripts/derive_terrain.py) and the orchestrator                        *)
(* (scripts/run_workflow.py).                                              *)
(*                                                                         *)
(* Number representation.  A raster cell is an IEEE float32.  It is the    *)
(* record [cls, v]: cls = "num" for a finite value, "nan" for              *)
(* not-a-number, "pinf"/"ninf" for the infinities.  A finite angle v is    *)
(* counted in angle units of 2^-17 degree (AU), the float32 spacing in     *)
(* [64,128); every multiple of AU below 128 degrees, of 2 AU below 256 and *)
(* of 4 AU below 512 is a float32.  Risk grids are uint8 and are plain     *)
(* integers.  A grid is a function from <<row, col>> to a cell.            *)
(***************************************************************************)
EXTENDS Integers, Sequences, FiniteSets, TLC

\* ------------------------------------------------------------------ bounds
MaxCells == 1

\* --------------------------------------------------------------- floats
AU == 131072

Deg(n) == n * AU

FNum(x) == [cls |-> "num", v |-> x]

NaN == [cls |-> "nan", v |-> 0]

PosInf == [cls |-> "pinf", v |-> 0]

NegInf == [cls |-> "ninf", v |-> 0]

IsNaN(x) == x.cls = "nan"

Finite(x) == x.cls = "num"

\* x < k, x >= k, x == k, x != k for a float x and a finite number k, as
\* numpy evaluates them: every ordered comparison with NaN is False, and
\* NaN != k is True.
FLt(x, k) == \/ x.cls = "ninf"
             \/ x.cls = "num" /\ x.v < k

FGe(x, k) == \/ x.cls = "pinf"
             \/ x.cls = "num" /\ x.v >= k

FEq(x, k) == x.cls = "num" /\ x.v = k

FNe(x, k) == ~FEq(x, k)

\* ---------------------------------------------------------------- grids
GridCells(h, w) == (1..h) \X (1..w)

RowGrids(n, Vals) == [GridCells(1, n) -> Vals]

Max(a, b) == IF a >= b THEN a ELSE b

Min(a, b) == IF a <= b THEN a ELSE b

\* arr.shape of a non-empty grid.
GridShape(g) ==
  <<Cardinality({c[1] : c \in DOMAIN g}), Cardinality({c[2] : c \in DOMAIN g})>>

\* numpy broadcasting of two shapes: in each dimension the sizes are equal
\* or one of them is 1, which is then stretched.
Broadcastable(s, t) == \A i \in 1..2 : s[i] = t[i] \/ s[i] = 1 \/ t[i] = 1

BroadcastShape(s, t) == <<Max(s[1], t[1]), Max(s[2], t[2])>>

\* The cell of g that broadcasting puts at position c.
BroadcastAt(g, c) ==
  LET s == GridShape(g)
  IN  g[<<IF s[1] = 1 THEN 1 ELSE c[1], IF s[2] = 1 THEN 1 ELSE c[2]>>]

\* ------------------------------------------------- build_risk_model.py
\* Mutant: the vegetation layer has no weight.
WEIGHTS_without_vegetation == [slope |-> 80, aspect |-> 20, vegetation |-> 0]

WEIGHTS == [slope |-> 45, aspect |-> 25, vegetation |-> 30]

\* The dict WEIGHTS as calculate_weighted_risk finds it when it runs.
VARIABLE weights

WeightScale == 100

\* Mutant: the lower bounds of the slope classes are exclusive.
SlopeMask_exclusive(i, x) ==
  CASE i = 1 -> FLt(x, Deg(5))
    [] i = 2 -> FGe(x, Deg(5) + 1) /\ FLt(x, Deg(15))
    [] i = 3 -> FGe(x, Deg(15) + 1) /\ FLt(x, Deg(25))
    [] i = 4 -> FGe(x, Deg(25) + 1) /\ FLt(x, Deg(35))
    [] i = 5 -> FGe(x, Deg(35) + 1)

\* The masked overwrites of reclassify_slope, in source order: the mask of
\* overwrite i and the level it stores.
SlopeMask(i, x) ==
  CASE i = 1 -> FLt(x, Deg(5))
    [] i = 2 -> FGe(x, Deg(5)) /\ FLt(x, Deg(15))
    [] i = 3 -> FGe(x, Deg(15)) /\ FLt(x, Deg(25))
    [] i = 4 -> FGe(x, Deg(25)) /\ FLt(x, Deg(35))
    [] i = 5 -> FGe(x, Deg(35))

\* Mutant: the levels are numbered from 0.
SlopeLevel_zero_based(i) == i - 1

SlopeLevel(i) == i

\* Mutant: the flat sentinel is not classified, and is excluded from North.
AspectMask_flat_unclassified(i, x) ==
  CASE i = 1 -> FALSE
    [] i = 2 -> (FGe(x, Deg(315)) \/ FLt(x, Deg(45))) /\ FNe(x, -Deg(1))
    [] i = 3 -> FGe(x, Deg(45)) /\ FLt(x, Deg(135))
    [] i = 4 -> FGe(x, Deg(135)) /\ FLt(x, Deg(225))
    [] i = 5 -> FGe(x, Deg(225)) /\ FLt(x, Deg(315))

\* The masked overwrites of reclassify_aspect, in source order.
AspectMask(i, x) ==
  CASE i = 1 -> FEq(x, -Deg(1))
    [] i = 2 -> (FGe(x, Deg(315)) \/ FLt(x, Deg(45))) /\ FNe(x, -Deg(1))
    [] i = 3 -> FGe(x, Deg(45)) /\ FLt(x, Deg(135))
    [] i = 4 -> FGe(x, Deg(135)) /\ FLt(x, Deg(225))
    [] i = 5 -> FGe(x, Deg(225)) /\ FLt(x, Deg(315))

AspectLevel(i) ==
  CASE i = 1 -> 2
    [] i = 2 -> 2
    [] i = 3 -> 3
    [] i = 4 -> 5
    [] i = 5 -> 4

\* risk[mask] = level, applied to one cell of the array.
Overwrite(risk, mask, level) == IF mask THEN level ELSE risk

RECURSIVE SlopeOverwrites(_, _, _)
SlopeOverwrites(order, x, risk) ==
  IF order = << >> THEN risk
  ELSE SlopeOverwrites(Tail(order), x,
         Overwrite(risk, SlopeMask(Head(order), x), SlopeLevel(Head(order))))

RECURSIVE AspectOverwrites(_, _, _)
AspectOverwrites(order, x, risk) ==
  IF order = << >> THEN risk
  ELSE AspectOverwrites(Tail(order), x,
         Overwrite(risk, AspectMask(Head(order), x), AspectLevel(Head(order))))

SourceOrder == <<1, 2, 3, 4, 5>>

\* reclassify_slope on one cell: zeros_like, the five overwrites, then the
\* NoData overwrite.
SlopeRiskCell(x) ==
  Overwrite(SlopeOverwrites(SourceOrder, x, 0), IsNaN(x), 0)

AspectRiskCell(x) ==
  Overwrite(AspectOverwrites(SourceOrder, x, 0), IsNaN(x), 0)

reclassify_slope(slope) == [c \in DOMAIN slope |-> SlopeRiskCell(slope[c])]

reclassify_aspect(aspect) == [c \in DOMAIN aspect |-> AspectRiskCell(aspect[c])]

\* np.full(shape, 3): the placeholder layer has the reference raster's shape.
\* Mutant: the placeholder level is High.
reclassify_vegetation_high(reference) == [c \in DOMAIN reference |-> 4]

reclassify_vegetation(reference) == [c \in DOMAIN reference |-> 3]

\* np.round: round half to even, on raw = n / WeightScale with n >= 0.
NpRound(n) ==
  LET q == n \div WeightScale
      r == n % WeightScale
  IN  IF 2 * r > WeightScale THEN q + 1
      ELSE IF 2 * r < WeightScale THEN q
      ELSE IF q % 2 = 0 THEN q ELSE q + 1

NpClip(x, lo, hi) == IF x < lo THEN lo ELSE IF x > hi THEN hi ELSE x

\* WEIGHTS['slope'] * s + WEIGHTS['aspect'] * a + WEIGHTS['vegetation'] * v,
\* in hundredths.
\* Mutant: the layers are added without their weights.
WeightedSum_unweighted(s, a, v) == WeightScale * (s + a + v)

WeightedSum(s, a, v) ==
  weights.slope * s + weights.aspect * a + weights.vegetation * v

\* Mutant: the vegetation layer is left out of the NoData mask.
NodataMask_no_vegetation(s, a, v) == s = 0 \/ a = 0

NodataMask(s, a, v) == s = 0 \/ a = 0 \/ v = 0

WeightedRiskCell(s, a, v) ==
  Overwrite(NpClip(NpRound(WeightedSum(s, a, v)), 1, 5), NodataMask(s, a, v), 0)

\* Lines 204-216 raise no error exactly when the three shapes broadcast.
ShapesCombine(sr, ar, vr) ==
  /\ Broadcastable(GridShape(sr), GridShape(ar))
  /\ Broadcastable(BroadcastShape(GridShape(sr), GridShape(ar)), GridShape(vr))

calculate_weighted_risk(sr, ar, vr) ==
  LET shape == BroadcastShape(BroadcastShape(GridShape(sr), GridShape(ar)),
                              GridShape(vr))
  IN  [c \in GridCells(shape[1], shape[2]) |->
         WeightedRiskCell(BroadcastAt(sr, c), BroadcastAt(ar, c),
                          BroadcastAt(vr, c))]

\* ------------------------------------------------------------- state
VARIABLES
  rpc,          \* position of build_risk_model.main
  slope_exists, \* slope_path.exists(), aspect_path.exists()
  aspect_exists,
  slope_tif,    \* slope.tif as read by reclassify_slope
  aspect_tif,   \* aspect.tif as read by reclassify_aspect
  slope_risk,   \* the grids returned by the three reclassifiers
  aspect_risk,
  veg_risk,
  final_risk,   \* the grid calculate_weighted_risk writes
  risk_written, \* the risk rasters on disk
  \* run_workflow.py
  wpc,           \* position of run_workflow.main
  args,          \* the three --skip flags
  env,           \* what the scripts find in data_raw/ and how they end
  files,         \* data_processed/raster: where each raster comes from
  success_count,
  status,        \* the exit status of run_workflow, -1 while it runs
  started,       \* the steps run_script has launched, in order
  finished,      \* the exit codes of the launched scripts, in order
  \* derive_terrain.py
  tpc,            \* position of derive_terrain.main
  dem_exists,     \* a dem_clipped.tif is found
  profile,        \* src.profile and src.res[0] of the DEM
  dem,            \* src.read(1)
  dz_dx,          \* the two gradients; a finite one is the numerator v of
  dz_dy,          \*   v / (800 * cell_size)
  slope_degrees,
  aspect_degrees,
  terrain_written, \* the terrain rasters on disk
  \* the pipeline run again
  run_number,     \* 1 in the first run of the pipeline, 2 in the second
  previous        \* the grids the first run produced

riskVars == <<rpc, slope_exists, aspect_exists, slope_tif, aspect_tif, slope_risk, aspect_risk, veg_risk,
              final_risk, risk_written>>

flowVars == <<wpc, args, env, files, success_count, status, started, finished>>

terrVars == <<tpc, dem_exists, profile, dem, dz_dx, dz_dy, slope_degrees,
              aspect_degrees, terrain_written>>

histVars == <<run_number, previous>>

confVars == <<weights>>

notRisk == <<flowVars, terrVars, histVars, confVars>>

notFlow == <<riskVars, terrVars, histVars, confVars>>

notTerrain == <<riskVars, flowVars, histVars, confVars>>

vars == <<riskVars, flowVars, terrVars, histVars, confVars>>

\* The state of a script that is not part of the run under study.
RiskIdle ==
  /\ rpc = "idle"
  /\ slope_exists = FALSE
  /\ aspect_exists = FALSE
  /\ slope_tif = << >>
  /\ aspect_tif = << >>
  /\ slope_risk = << >>
  /\ aspect_risk = << >>
  /\ veg_risk = << >>
  /\ final_risk = << >>
  /\ risk_written = {}

FlowIdle ==
  /\ wpc = "idle"
  /\ args = << >>
  /\ env = << >>
  /\ files = << >>
  /\ success_count = 0
  /\ status = -1
  /\ started = << >>
  /\ finished = << >>

NoProfile == [height |-> 0, width |-> 0, cell_size |-> 0]

TerrIdle ==
  /\ tpc = "idle"
  /\ dem_exists = FALSE
  /\ profile = NoProfile
  /\ dem = << >>
  /\ dz_dx = << >>
  /\ dz_dy = << >>
  /\ slope_degrees = << >>
  /\ aspect_degrees = << >>
  /\ terrain_written = {}

FirstRun ==
  /\ run_number = 1
  /\ previous = << >>

\* The weights as the module defines them.
Shipped == weights = WEIGHTS

Unset == << >>

\* Slope and aspect values around every threshold the reclassifiers test.
SlopeInputs ==
  {NaN, PosInf, NegInf} \cup
  {FNum(x) : x \in {-Deg(9999), 0, Deg(90)}} \cup
  {FNum(Deg(t) + e) : t \in {5, 15, 25, 35}, e \in {-1, 0, 1}}

F32_134_999 == 17694588

AspectInputs ==
  {NaN, PosInf, NegInf} \cup
  {FNum(x) : x \in {-Deg(1) - 1, -Deg(1), -Deg(1) + 1, 0, F32_134_999,
                    Deg(360) - 4, Deg(360)}} \cup
  {FNum(Deg(45) + e) : e \in {-1, 0, 1}} \cup
  {FNum(Deg(t) + e) : t \in {135, 225}, e \in {-2, 0, 2}} \cup
  {FNum(Deg(315) + e) : e \in {-4, 0, 4}}

RiskLevels == 0..5

\* build_risk_model.main starts with whatever derive_terrain left on disk;
\* a raster's cells are known once src.read(1) has read them.
InitRisk ==
  /\ rpc = "check"
  /\ slope_exists \in BOOLEAN
  /\ aspect_exists \in BOOLEAN
  /\ slope_tif = Unset
  /\ aspect_tif = Unset
  /\ slope_risk = Unset
  /\ aspect_risk = Unset
  /\ veg_risk = Unset
  /\ final_risk = Unset
  /\ risk_written = {}
  /\ FlowIdle
  /\ FirstRun
  /\ Shipped
  /\ TerrIdle

\* Mutant: only slope.tif is required.
CheckInputs_slope_only ==
  /\ rpc = "check"
  /\ rpc' = IF ~slope_exists THEN "exit1" ELSE "reclassify_slope"
  /\ UNCHANGED <<slope_exists, aspect_exists, slope_tif, aspect_tif,
                 slope_risk, aspect_risk, veg_risk, final_risk, risk_written,
                 notRisk>>

\* main, lines 243-257: both inputs must exist, else sys.exit(1).
CheckInputs ==
  /\ rpc = "check"
  /\ rpc' = IF ~slope_exists \/ ~aspect_exists
            THEN "exit1" ELSE "reclassify_slope"
  /\ UNCHANGED <<slope_exists, aspect_exists, slope_tif, aspect_tif,
                 slope_risk, aspect_risk, veg_risk, final_risk, risk_written,
                 notRisk>>

\* The contents of slope.tif and aspect.tif: what derive_terrain wrote when
\* it ran before build_risk_model, any raster otherwise; aspect.tif was
\* written by the same derive_terrain run as slope.tif and has its shape.
SlopeOnDisk ==
  IF tpc = "done" THEN {slope_degrees}
  ELSE UNION {RowGrids(n, SlopeInputs) : n \in 1..MaxCells}

AspectOnDisk ==
  IF tpc = "done" THEN {aspect_degrees}
  ELSE [DOMAIN slope_tif -> AspectInputs]

ReclassifySlope ==
  /\ rpc = "reclassify_slope"
  /\ slope_tif' \in SlopeOnDisk
  /\ slope_risk' = reclassify_slope(slope_tif')
  /\ risk_written' = risk_written \cup {"slope_risk.tif"}
  /\ rpc' = "reclassify_aspect"
  /\ UNCHANGED <<slope_exists, aspect_exists, aspect_tif, aspect_risk,
                 veg_risk, final_risk,
                 notRisk>>

ReclassifyAspect ==
  /\ rpc = "reclassify_aspect"
  /\ aspect_tif' \in AspectOnDisk
  /\ aspect_risk' = reclassify_aspect(aspect_tif')
  /\ risk_written' = risk_written \cup {"aspect_risk.tif"}
  /\ rpc' = "reclassify_vegetation"
  /\ UNCHANGED <<slope_exists, aspect_exists, slope_tif, slope_risk,
                 veg_risk, final_risk,
                 notRisk>>

\* Mutant: a vegetation_risk.tif left by an earlier run is built upon.
ReclassifyVegetation_builds_on_leftover ==
  /\ rpc = "reclassify_vegetation"
  /\ veg_risk' = [c \in DOMAIN slope_tif |->
                    IF "vegetation_risk.tif" \in risk_written THEN 4 ELSE 3]
  /\ risk_written' = risk_written \cup {"vegetation_risk.tif"}
  /\ rpc' = "overlay"
  /\ UNCHANGED <<slope_exists, aspect_exists, slope_tif, aspect_tif,
                 slope_risk, aspect_risk, final_risk,
                 notRisk>>

ReclassifyVegetation ==
  /\ rpc = "reclassify_vegetation"
  /\ veg_risk' = reclassify_vegetation(slope_tif)
  /\ risk_written' = risk_written \cup {"vegetation_risk.tif"}
  /\ rpc' = "overlay"
  /\ UNCHANGED <<slope_exists, aspect_exists, slope_tif, aspect_tif,
                 slope_risk, aspect_risk, final_risk,
                 notRisk>>

\* What dst.write(final_risk, 1) does with a grid that has not the shape of
\* the reference raster (slope.tif): GDAL resamples the buffer or the write
\* raises, depending on the rasterio build.
WriteOutcomes(grid, reference) ==
  IF GridShape(grid) = GridShape(reference) THEN {"written"}
  ELSE {"written", "error"}

\* calculate_weighted_risk, lines 203-234, called from main at 272-273: a
\* broadcasting error or a failed write ends in main's except: sys.exit(1).
CalculateWeightedRisk ==
  /\ rpc = "overlay"
  /\ IF ~ShapesCombine(slope_risk, aspect_risk, veg_risk)
     THEN /\ rpc' = "exit1"
          /\ UNCHANGED <<final_risk, risk_written>>
     ELSE /\ final_risk' =
               calculate_weighted_risk(slope_risk, aspect_risk, veg_risk)
          /\ \E outcome \in WriteOutcomes(final_risk', slope_risk) :
               IF outcome = "written"
               THEN /\ risk_written' = risk_written \cup {"fire_risk.tif"}
                    /\ rpc' = "done"
               ELSE /\ risk_written' = risk_written
                    /\ rpc' = "exit1"
  /\ UNCHANGED <<slope_exists, aspect_exists, slope_tif, aspect_tif,
                 slope_risk, aspect_risk, veg_risk,
                 notRisk>>

NextRisk ==
  \/ CheckInputs
  \/ ReclassifySlope
  \/ ReclassifyAspect
  \/ ReclassifyVegetation
  \/ CalculateWeightedRisk

Spec == InitRisk /\ [][NextRisk]_vars

\* calculate_weighted_risk called on any three uint8 risk layers.
InitOverlay ==
  /\ rpc = "overlay"
  /\ slope_exists = TRUE
  /\ aspect_exists = TRUE
  /\ slope_tif = Unset
  /\ aspect_tif = Unset
  /\ \E n \in 1..MaxCells :
       /\ slope_risk \in RowGrids(n, RiskLevels)
       /\ aspect_risk \in RowGrids(n, RiskLevels)
       /\ veg_risk \in RowGrids(n, RiskLevels)
  /\ final_risk = Unset
  /\ risk_written = {}
  /\ FlowIdle
  /\ FirstRun
  /\ Shipped
  /\ TerrIdle

NextOverlay == CalculateWeightedRisk

SpecOverlay == InitOverlay /\ [][NextOverlay]_vars

\* calculate_weighted_risk called on three layers of any shapes up to
\* MaxSide x MaxSide, each layer holding one level at all its cells.
MaxSide == 2

Shapes == (1..MaxSide) \X (1..MaxSide)

UniformGrids(Vals) ==
  {[c \in GridCells(s[1], s[2]) |-> v] : s \in Shapes, v \in Vals}

InitShapes ==
  /\ rpc = "overlay"
  /\ slope_exists = TRUE
  /\ aspect_exists = TRUE
  /\ slope_tif = Unset
  /\ aspect_tif = Unset
  /\ slope_risk \in UniformGrids({0, 1, 5})
  /\ aspect_risk \in UniformGrids({0, 2, 5})
  /\ veg_risk \in UniformGrids({0, 3})
  /\ final_risk = Unset
  /\ risk_written = {}
  /\ FlowIdle
  /\ FirstRun
  /\ Shipped
  /\ TerrIdle

SpecShapes == InitShapes /\ [][NextOverlay]_vars

\* calculate_weighted_risk called on one cell of three classified layers
\* under other weights: non-negative hundredths that sum to 1, for each of
\* which the float64 sum rounds as the exact sum at every input.
WeightSets ==
  {[slope |-> w[1], aspect |-> w[2], vegetation |-> w[3]] :
     w \in {<<45, 25, 30>>, <<100, 0, 0>>, <<0, 100, 0>>, <<0, 0, 100>>,
            <<50, 50, 0>>, <<0, 50, 50>>, <<50, 25, 25>>, <<25, 25, 50>>,
            <<20, 30, 50>>, <<40, 40, 20>>}}

InitWeights ==
  /\ rpc = "overlay"
  /\ slope_exists = TRUE
  /\ aspect_exists = TRUE
  /\ slope_tif = Unset
  /\ aspect_tif = Unset
  /\ slope_risk \in RowGrids(1, RiskLevels)
  /\ aspect_risk \in RowGrids(1, RiskLevels)
  /\ veg_risk \in RowGrids(1, RiskLevels)
  /\ final_risk = Unset
  /\ risk_written = {}
  /\ FlowIdle
  /\ TerrIdle
  /\ FirstRun
  /\ weights \in WeightSets

SpecWeights == InitWeights /\ [][NextOverlay]_vars

\* ------------------------------------------------------ derive_terrain.py
\* Elevations are float32 metres, counted in centimetres.  A finite gradient
\* is the integer numerator v of v / GradDen(cell_size).  np.arctan,
\* np.arctan2 and np.sqrt are computed by integer CORDIC rotations on angles
\* counted in AU / SUB, then rounded to the float32 grid.
MaxDim == 3

NODATA == -999900

SUB == 64

LIM == 2 ^ 28

CordicAngles ==
  <<377487360, 222843801, 117744544, 59768969, 30000467, 15014858, 7509261,
    3754860, 1877459, 938733, 469367, 234683, 117342, 58671, 29335, 14668,
    7334, 3667, 1833, 917, 458, 229, 115, 57, 29, 14, 7, 4>>

Abs(x) == IF x < 0 THEN -x ELSE x

Sign(x) == IF x > 0 THEN 1 ELSE IF x < 0 THEN -1 ELSE 0

\* The power of two that brings m into [LIM / 2, LIM), for 0 < m < LIM.
RECURSIVE ScaleFactor(_)
ScaleFactor(m) == IF 2 * m < LIM THEN 2 * ScaleFactor(2 * m) ELSE 1

\* CORDIC vectoring from rotation i on: <<x, y>> is turned onto the x axis;
\* the result is <<gain * |(x, y)|, angle of (x, y)>>.
RECURSIVE Vector(_, _, _, _)
Vector(x, y, z, i) ==
  IF i > Len(CordicAngles) THEN <<x, z>>
  ELSE LET p == 2 ^ (i - 1)
       IN  IF y >= 0
           THEN Vector(x + (y \div p), y - (x \div p), z + CordicAngles[i], i + 1)
           ELSE Vector(x - (y \div p), y + (x \div p), z - CordicAngles[i], i + 1)

\* <<x, y>> doubled or halved until x is in [LIM / 2, LIM).
RECURSIVE ScaleTo(_, _)
ScaleTo(x, y) ==
  IF 2 * x < LIM THEN ScaleTo(2 * x, 2 * y)
  ELSE IF x >= LIM THEN ScaleTo(x \div 2, y \div 2)
  ELSE <<x, y>>

\* atan(y / x) for 0 <= y <= x, 0 < x.
ArctanOctant(y, x) ==
  IF y = 0 THEN 0
  ELSE IF y = x THEN 45 * AU * SUB
  ELSE LET s == ScaleTo(x, y) IN Vector(s[1], s[2], 0, 1)[2]

\* atan(y / x) for y >= 0, x >= 0, not both 0.
ArctanQuadrant(y, x) ==
  IF y <= x THEN ArctanOctant(y, x)
  ELSE 90 * AU * SUB - ArctanOctant(x, y)

\* Round v to the nearest multiple of g, a half to the even multiple.
RoundEven(v, g) ==
  LET q == v \div g
      r == v - q * g
  IN  IF 2 * r > g THEN (q + 1) * g
      ELSE IF 2 * r < g THEN q * g
      ELSE IF q % 2 = 0 THEN q * g ELSE (q + 1) * g

\* The float32 spacing, in AU, at an angle of |v| AU.
Spacing(v) ==
  IF Abs(v) < 128 * AU THEN 1
  ELSE IF Abs(v) < 256 * AU THEN 2
  ELSE IF Abs(v) < 512 * AU THEN 4 ELSE 8

\* The float32 nearest to v AU.
Rnd32(v) == RoundEven(v, Spacing(v))

\* An angle of z AU / SUB as a float32, in AU.
ToFloat32(z) ==
  LET g == Spacing(Abs(z) \div SUB)
      r == RoundEven(Abs(z), g * SUB) \div SUB
  IN  IF z >= 0 THEN r ELSE -r

\* np.degrees(np.arctan2(y, x)) for integers y, x; xnegzero: x is -0.0.
arctan2_degrees(y, x, xnegzero) ==
  IF x = 0 /\ y = 0 THEN (IF xnegzero THEN 180 * AU ELSE 0)
  ELSE IF x = 0 THEN (IF y > 0 THEN 90 * AU ELSE -(90 * AU))
  ELSE LET t == ArctanQuadrant(Abs(y), Abs(x))
           a == IF x > 0 THEN t ELSE 180 * AU * SUB - t
       IN  ToFloat32(IF y >= 0 THEN a ELSE -a)

\* np.degrees(np.arctan(np.sqrt(nx^2 + ny^2) / |d|)) for integers, d # 0.
arctan_sqrt_degrees(nx, ny, d) ==
  LET ax == Abs(nx)
      ay == Abs(ny)
      ad == Abs(d)
  IN  IF ax = 0 /\ ay = 0 THEN 0
      ELSE IF ax = 0 THEN ToFloat32(ArctanQuadrant(ay, ad))
      ELSE IF ay = 0 THEN ToFloat32(ArctanQuadrant(ax, ad))
      ELSE LET k == ScaleFactor(Max(Max(ax, ay), ad))
               h == Vector(k * Max(ax, ay), k * Min(ax, ay), 0, 1)[1]
               dd == Vector(k * ad, 0, 0, 1)[1]
           IN  ToFloat32(ArctanQuadrant(h, dd))

\* kernel_x and kernel_y before the division by 8 * cell_size (lines 65-71).
kernel_x == <<<<-1, 0, 1>>, <<-2, 0, 2>>, <<-1, 0, 1>>>>

kernel_y == <<<<1, 2, 1>>, <<0, 0, 0>>, <<-1, -2, -1>>>>

\* The denominator of a finite gradient: 8 * cell_size metres, in centimetres.
GradDen(cell_size) == 800 * cell_size

\* mode='reflect' for a 3x3 kernel: the edge cell is repeated.
Reflect(i, n) == IF i < 1 THEN 1 ELSE IF i > n THEN n ELSE i

\* The kernel positions ndimage.convolve visits: a weight of 0 (and the NaN
\* weight 0 / 0 of a zero cell size) is not part of the footprint.
Footprint(kernel) ==
  {kl \in (1..3) \X (1..3) : kernel[kl[1]][kl[2]] # 0}

RECURSIVE SumOver(_, _)
SumOver(S, f) ==
  IF S = {} THEN 0
  ELSE LET e == CHOOSE x \in S : TRUE IN f[e] + SumOver(S \ {e}, f)

\* Mutant: mode='constant', the grid is padded with zeros.
Tap_zero_padded(grid, shape, p, kl) ==
  LET q == <<p[1] + 2 - kl[1], p[2] + 2 - kl[2]>>
  IN  IF q \in DOMAIN grid THEN grid[q] ELSE FNum(0)

\* The input cell that kernel position kl multiplies at output cell p:
\* convolve flips the kernel.
Tap(grid, shape, p, kl) ==
  grid[<<Reflect(p[1] + 2 - kl[1], shape[1]),
         Reflect(p[2] + 2 - kl[2], shape[2])>>]

\* One cell of ndimage.convolve(dem, kernel / (8 * cell_size)).  With a zero
\* cell size the weights are +-inf: inf * 0 and inf - inf are NaN.
convolve_cell(grid, shape, kernel, cell_size, p) ==
  LET fp == Footprint(kernel)
      e == [kl \in fp |-> Tap(grid, shape, p, kl)]
      wt == [kl \in fp |-> kernel[kl[1]][kl[2]]]
  IN  IF \E kl \in fp : IsNaN(e[kl]) THEN NaN
      ELSE IF cell_size # 0
      THEN FNum(SumOver(fp, [kl \in fp |-> wt[kl] * e[kl].v]))
      ELSE LET sg == [kl \in fp |-> Sign(wt[kl]) * Sign(e[kl].v)]
           IN  IF \A kl \in fp : sg[kl] = 1 THEN PosInf
               ELSE IF \A kl \in fp : sg[kl] = -1 THEN NegInf
               ELSE NaN

convolve(grid, shape, kernel, cell_size) ==
  [p \in DOMAIN grid |-> convolve_cell(grid, shape, kernel, cell_size, p)]

IsInf(x) == x.cls \in {"pinf", "ninf"}

\* Lines 79-83: np.clip(degrees(arctan(sqrt(dz_dx^2 + dz_dy^2))), 0, 90).
slope_cell(gx, gy, cell_size) ==
  IF IsNaN(gx) \/ IsNaN(gy) THEN NaN
  ELSE IF IsInf(gx) \/ IsInf(gy) THEN FNum(Deg(90))
  ELSE FNum(NpClip(arctan_sqrt_degrees(gx.v, gy.v, GradDen(cell_size)),
                   0, Deg(90)))

\* np.degrees(np.arctan2(y, x)) when y or x is infinite.
arctan2_inf(y, x) ==
  CASE IsInf(y) /\ IsInf(x) ->
         (IF y.cls = "pinf" THEN 1 ELSE -1) * (IF x.cls = "pinf" THEN 45 ELSE 135) * AU
    [] IsInf(y) -> (IF y.cls = "pinf" THEN 90 ELSE -90) * AU
    [] OTHER -> (IF x.cls = "pinf" THEN 0 ELSE 180) * (IF y.v < 0 THEN -1 ELSE 1) * AU

FNeg(x) ==
  CASE x.cls = "pinf" -> NegInf
    [] x.cls = "ninf" -> PosInf
    [] x.cls = "nan" -> NaN
    [] OTHER -> FNum(-x.v)

\* Line 90: np.degrees(np.arctan2(dz_dy, -dz_dx)).  The two gradients have
\* the denominator GradDen(cell_size), whose sign goes to both arguments;
\* -dz_dx is -0.0 when dz_dx is 0.
aspect_raw(gx, gy, cell_size) ==
  IF IsNaN(gx) \/ IsNaN(gy) THEN NaN
  ELSE IF IsInf(gx) \/ IsInf(gy) THEN FNum(arctan2_inf(gy, FNeg(gx)))
  ELSE LET sg == Sign(GradDen(cell_size))
       IN  FNum(arctan2_degrees(sg * gy.v, -sg * gx.v, gx.v = 0))

\* Line 93: aspect_degrees = 90 - aspect_degrees, in float32.
CompassBearing(raw) == IF Finite(raw) THEN FNum(Rnd32(Deg(90) - raw.v)) ELSE raw

\* Lines 94-98: np.where(aspect_degrees < 0, aspect_degrees + 360, ...).
WrapNegative(b) ==
  IF Finite(b) /\ b.v < 0 THEN FNum(Rnd32(b.v + Deg(360))) ELSE b

\* Mutant: only a cell of slope exactly 0 is flat.
FlatOverride_only_zero(slope, b) == IF FEq(slope, 0) THEN FNum(-AU) ELSE b

\* Line 101: np.where(slope_degrees < 1, -1, aspect_degrees).
FlatOverride(slope, b) == IF FLt(slope, Deg(1)) THEN FNum(-AU) ELSE b

aspect_cell(gx, gy, slope, cell_size) ==
  FlatOverride(slope, WrapNegative(CompassBearing(aspect_raw(gx, gy, cell_size))))

\* The elevation grids derive_terrain is run on: n x n grids, n = 0 being
\* the empty grid.  A tilted plane; a plane with one NoData cell, stored as
\* NaN or as the nodata marker of the profile; and a level grid clipped at
\* its top, k rows of nodata marker, with one cell a centimetre higher.
base_elevation == 30000

Tilts == {-1000, 0, 1000}

Plane(n, a, b) ==
  [p \in GridCells(n, n) |-> FNum(base_elevation + a * p[1] + b * p[2])]

NoDataCells == {NaN, FNum(NODATA)}

IsNoData(x) == x \in NoDataCells

ClipEdge(n, k, p) ==
  [q \in GridCells(n, n) |->
     IF q[1] <= k THEN FNum(NODATA)
     ELSE IF q = p THEN FNum(base_elevation + 1)
     ELSE FNum(base_elevation)]

\* The level grid with every cell at 100 m.
Level(n) == [p \in GridCells(n, n) |-> FNum(10000)]

DemInputs(n) ==
  {Plane(n, a, b) : a \in Tilts, b \in Tilts}
  \cup {Level(n)}
  \cup {[Plane(n, t[1], t[2]) EXCEPT ![t[3]] = t[4]] :
          t \in Tilts \X Tilts \X GridCells(n, n) \X NoDataCells}
  \cup {ClipEdge(n, kp[1], kp[2]) :
          kp \in {x \in (0..n) \X GridCells(n, n) : x[2][1] > x[1]}}

\* src.res[0]: 10 is the resolution of generate_sample_dem; nothing keeps a
\* raster from having a zero or negative pixel width.
CellSizes == {-10, 0, 10, 30}

InitTerrain ==
  /\ tpc = "check"
  /\ dem_exists \in BOOLEAN
  /\ profile = NoProfile
  /\ dem = Unset
  /\ dz_dx = Unset
  /\ dz_dy = Unset
  /\ slope_degrees = Unset
  /\ aspect_degrees = Unset
  /\ terrain_written = {}
  /\ RiskIdle
  /\ FlowIdle
  /\ FirstRun
  /\ Shipped

\* main, lines 127-133: no dem_clipped.tif in data_processed: sys.exit(1).
CheckDem ==
  /\ tpc = "check"
  /\ tpc' = IF dem_exists THEN "read" ELSE "exit1"
  /\ UNCHANGED <<dem_exists, profile, dem, dz_dx, dz_dy, slope_degrees,
                 aspect_degrees, terrain_written, notTerrain>>

\* The contents of dem_clipped.tif: any of the elevation grids with any of
\* the cell sizes in the first run, the same file in the second.
DemOnDisk ==
  IF run_number = 1
  THEN UNION {{[dem |-> g,
                profile |-> [height |-> n, width |-> n, cell_size |-> c]] :
                 g \in DemInputs(n), c \in CellSizes} : n \in 0..MaxDim}
  ELSE {[dem |-> dem, profile |-> profile]}

\* Lines 49-57: the DEM is read; np.nanmin(dem) raises on an empty grid and
\* main turns the exception into sys.exit(1).
ReadDem ==
  /\ tpc = "read"
  /\ \E f \in DemOnDisk :
       /\ dem' = f.dem
       /\ profile' = f.profile
       /\ tpc' = IF f.profile.height = 0 THEN "exit1" ELSE "gradients"
  /\ UNCHANGED <<dem_exists, dz_dx, dz_dy, slope_degrees, aspect_degrees,
                 terrain_written, notTerrain>>

\* Lines 65-75.
ComputeGradients ==
  /\ tpc = "gradients"
  /\ LET shape == <<profile.height, profile.width>>
     IN  /\ dz_dx' = convolve(dem, shape, kernel_x, profile.cell_size)
         /\ dz_dy' = convolve(dem, shape, kernel_y, profile.cell_size)
  /\ tpc' = "slope"
  /\ UNCHANGED <<dem_exists, profile, dem, slope_degrees, aspect_degrees,
                 terrain_written, notTerrain>>

\* Lines 79-83.
ComputeSlope ==
  /\ tpc = "slope"
  /\ slope_degrees' =
       [p \in DOMAIN dem |-> slope_cell(dz_dx[p], dz_dy[p], profile.cell_size)]
  /\ tpc' = "aspect"
  /\ UNCHANGED <<dem_exists, profile, dem, dz_dx, dz_dy, aspect_degrees,
                 terrain_written, notTerrain>>

\* Lines 90-101.
ComputeAspect ==
  /\ tpc = "aspect"
  /\ aspect_degrees' =
       [p \in DOMAIN dem |->
          aspect_cell(dz_dx[p], dz_dy[p], slope_degrees[p], profile.cell_size)]
  /\ tpc' = "save_slope"
  /\ UNCHANGED <<dem_exists, profile, dem, dz_dx, dz_dy, slope_degrees,
                 terrain_written, notTerrain>>

\* Lines 107-110.
SaveSlope ==
  /\ tpc = "save_slope"
  /\ terrain_written' = terrain_written \cup {"slope.tif"}
  /\ tpc' = "save_aspect"
  /\ UNCHANGED <<dem_exists, profile, dem, dz_dx, dz_dy, slope_degrees,
                 aspect_degrees, notTerrain>>

\* Lines 114-117; calculate_slope_aspect returns and main ends with status 0.
SaveAspect ==
  /\ tpc = "save_aspect"
  /\ terrain_written' = terrain_written \cup {"aspect.tif"}
  /\ tpc' = "done"
  /\ UNCHANGED <<dem_exists, profile, dem, dz_dx, dz_dy, slope_degrees,
                 aspect_degrees, notTerrain>>

NextTerrain ==
  \/ CheckDem
  \/ ReadDem
  \/ ComputeGradients
  \/ ComputeSlope
  \/ ComputeAspect
  \/ SaveSlope
  \/ SaveAspect

SpecTerrain == InitTerrain /\ [][NextTerrain]_vars

\* Either script run by itself, from any state of data_processed/raster.
InitScripts == InitTerrain \/ InitRisk

NextScripts == NextTerrain \/ NextRisk

SpecScripts == InitScripts /\ [][NextScripts]_vars

\* The pipeline: derive_terrain, then build_risk_model on the slope.tif and
\* aspect.tif it wrote, then both once more on the same dem_clipped.tif.
\* build_risk_model.py is launched once derive_terrain.py has ended with
\* status 0.
StartRisk ==
  /\ tpc = "done"
  /\ rpc = "idle"
  /\ rpc' = "check"
  /\ slope_exists' = ("slope.tif" \in terrain_written)
  /\ aspect_exists' = ("aspect.tif" \in terrain_written)
  /\ UNCHANGED <<slope_tif, aspect_tif, slope_risk, aspect_risk, veg_risk,
                 final_risk, risk_written, notRisk>>

\* The two scripts are launched again: new processes, the files on disk as
\* the first run left them.
Rerun ==
  /\ rpc = "done"
  /\ run_number = 1
  /\ run_number' = 2
  /\ previous' = [slope_degrees |-> slope_degrees,
                  aspect_degrees |-> aspect_degrees,
                  slope_risk |-> slope_risk, aspect_risk |-> aspect_risk,
                  veg_risk |-> veg_risk, final_risk |-> final_risk]
  /\ tpc' = "check"
  /\ dz_dx' = Unset /\ dz_dy' = Unset
  /\ slope_degrees' = Unset /\ aspect_degrees' = Unset
  /\ rpc' = "idle"
  /\ slope_exists' = FALSE /\ aspect_exists' = FALSE
  /\ slope_tif' = Unset /\ aspect_tif' = Unset
  /\ slope_risk' = Unset /\ aspect_risk' = Unset
  /\ veg_risk' = Unset /\ final_risk' = Unset
  /\ UNCHANGED <<dem_exists, profile, dem, terrain_written, risk_written,
                 flowVars, confVars>>

NextPipeline ==
  \/ NextTerrain
  \/ StartRisk
  \/ NextRisk
  \/ Rerun

SpecPipeline == InitTerrain /\ [][NextPipeline]_vars

\* -------------------------------------------------------- run_workflow.py
Steps == 1..3

ScriptOf(i) ==
  CASE i = 1 -> "clip_and_reproject.py"
    [] i = 2 -> "derive_terrain.py"
    [] i = 3 -> "build_risk_model.py"

Skipped(i) ==
  CASE i = 1 -> args.skip_clip
    [] i = 2 -> args.skip_terrain
    [] i = 3 -> args.skip_risk

\* Mutant: only the steps that are not skipped are counted.
total_steps_not_skipped == Cardinality({i \in Steps : ~Skipped(i)})

total_steps == 3

\* Mutant: a failed step does not stop the workflow.
AfterStep_keep_going(i, ok) ==
  IF i = 3 THEN "summary" ELSE IF i = 1 THEN "step2" ELSE "step3"

\* Where main goes once step i is over: to the next step, or out with
\* "return 1" when run_script returned False.
AfterStep(i, ok) ==
  IF ~ok THEN "returned"
  ELSE IF i = 3 THEN "summary" ELSE IF i = 1 THEN "step2" ELSE "step3"

Rasters == {"dem_clipped.tif", "slope.tif", "aspect.tif", "fire_risk.tif"}

\* A raster of data_processed/raster is absent, left by an earlier run
\* ("old"), written by this run from rasters this run wrote ("fresh"), or
\* written by this run from a raster an earlier run left ("from_old").
Derived(src) == IF src = "fresh" THEN "fresh" ELSE "from_old"

Both(a, b) == IF a = "fresh" /\ b = "fresh" THEN "fresh" ELSE "from_old"

InitFlow ==
  /\ wpc = "prompt"
  /\ args \in [skip_clip : BOOLEAN, skip_terrain : BOOLEAN, skip_risk : BOOLEAN]
  /\ env \in [boundary : BOOLEAN, raw_dem : BOOLEAN, clip_ok : BOOLEAN,
              terrain : {"ok", "fails", "fails_after_slope"},
              risk : {"ok", "fails"}, spawn_ok : BOOLEAN]
  /\ files \in [Rasters -> {"absent", "old"}]
  /\ success_count = 0
  /\ status = -1
  /\ started = << >>
  /\ finished = << >>
  /\ RiskIdle
  /\ TerrIdle
  /\ FirstRun
  /\ Shipped

\* input("Press Enter to continue or Ctrl+C to cancel...")
Prompt ==
  /\ wpc = "prompt"
  /\ \/ wpc' = "step1" /\ status' = status
     \/ wpc' = "returned" /\ status' = 1
  /\ UNCHANGED <<args, env, files, success_count, started, finished, notFlow>>

\* "if not args.skip_...: run_script(...)": subprocess.run launches the script.
Launch(i) ==
  /\ wpc = CASE i = 1 -> "step1" [] i = 2 -> "step2" [] i = 3 -> "step3"
  /\ ~Skipped(i)
  /\ wpc' = CASE i = 1 -> "run1" [] i = 2 -> "run2" [] i = 3 -> "run3"
  /\ started' = Append(started, i)
  /\ UNCHANGED <<args, env, files, success_count, status, finished, notFlow>>

\* The else branch: the step is skipped.
Skip(i) ==
  /\ wpc = CASE i = 1 -> "step1" [] i = 2 -> "step2" [] i = 3 -> "step3"
  /\ Skipped(i)
  /\ wpc' = AfterStep(i, TRUE)
  /\ UNCHANGED <<args, env, files, success_count, status, started, finished,
                 notFlow>>

\* What clip_and_reproject.py leaves behind and its exit code: a missing
\* boundary is fatal; a failure to clip the DEM is printed and swallowed.
ClipScript ==
  IF ~env.boundary THEN [rc |-> 1, files |-> files]
  ELSE IF env.raw_dem /\ env.clip_ok
       THEN [rc |-> 0, files |-> [files EXCEPT !["dem_clipped.tif"] = "fresh"]]
       ELSE [rc |-> 0, files |-> files]

\* derive_terrain.py: no dem_clipped.tif is fatal; slope.tif is written
\* before aspect.tif; any exception ends in sys.exit(1).
TerrainScript ==
  LET clipped == files["dem_clipped.tif"]
  IN  IF clipped = "absent" \/ env.terrain = "fails"
      THEN [rc |-> 1, files |-> files]
      ELSE IF env.terrain = "fails_after_slope"
      THEN [rc |-> 1, files |-> [files EXCEPT !["slope.tif"] = Derived(clipped)]]
      ELSE [rc |-> 0, files |-> [files EXCEPT !["slope.tif"] = Derived(clipped),
                                              !["aspect.tif"] = Derived(clipped)]]

\* build_risk_model.py: a missing slope.tif or aspect.tif is fatal.
RiskScript ==
  LET sl == files["slope.tif"]
      as == files["aspect.tif"]
  IN  IF sl = "absent" \/ as = "absent" \/ env.risk = "fails"
      THEN [rc |-> 1, files |-> files]
      ELSE [rc |-> 0, files |-> [files EXCEPT !["fire_risk.tif"] = Both(sl, as)]]

ScriptRun(i) ==
  CASE i = 1 -> ClipScript
    [] i = 2 -> TerrainScript
    [] i = 3 -> RiskScript

\* The script ends, run_script returns whether its exit code was 0 and main
\* counts the success or returns 1.
Exit(i) ==
  /\ wpc = CASE i = 1 -> "run1" [] i = 2 -> "run2" [] i = 3 -> "run3"
  /\ LET run == IF env.spawn_ok THEN ScriptRun(i)
                ELSE [rc |-> 127, files |-> files]
         ok == run.rc = 0
     IN  /\ files' = run.files
         /\ finished' = Append(finished, run.rc)
         /\ success_count' = IF ok THEN success_count + 1 ELSE success_count
         /\ wpc' = AfterStep(i, ok)
         /\ status' = IF ok THEN status ELSE 1
  /\ UNCHANGED <<args, env, started, notFlow>>

\* "return 0 if success_count == total_steps else 1"
Summary ==
  /\ wpc = "summary"
  /\ wpc' = "returned"
  /\ status' = IF success_count = total_steps THEN 0 ELSE 1
  /\ UNCHANGED <<args, env, files, success_count, started, finished, notFlow>>

NextFlow ==
  \/ Prompt
  \/ \E i \in Steps : Launch(i)
  \/ \E i \in Steps : Skip(i)
  \/ \E i \in Steps : Exit(i)
  \/ Summary

SpecWorkflow == InitFlow /\ [][NextFlow]_vars

\* ------------------------------------------------------------ claims
Done == rpc = "done"

Classified(x) == x \in 1..5

\* round_half_away_from_zero on raw = n / WeightScale with n >= 0.
RoundHalfAwayFromZero(n) == (2 * n + WeightScale) \div (2 * WeightScale)

Clamp(x, lo, hi) == IF x < lo THEN lo ELSE IF x > hi THEN hi ELSE x

\* C1 (as claimed): at every cell whose three layers are all in 1..5 the
\* overlay outputs clamp(round_half_away_from_zero(0.45 s + 0.25 a + 0.30 v),
\* 1, 5); in particular raw 2.5 gives 3.
C1_RoundHalfAwayFromZero ==
  Done =>
    \A c \in DOMAIN final_risk :
      (Classified(slope_risk[c]) /\ Classified(aspect_risk[c])
         /\ Classified(veg_risk[c]))
      => final_risk[c] =
           Clamp(RoundHalfAwayFromZero(45 * slope_risk[c] + 25 * aspect_risk[c]
                                        + 30 * veg_risk[c]), 1, 5)

\* C2: NoData is contagious in the overlay: a cell where at least one layer
\* is 0 gets 0 whatever the other two are, and a cell whose three layers are
\* all in 1..5 never gets 0.
C2_NoDataContagious ==
  Done =>
    \A c \in DOMAIN final_risk :
      /\ (slope_risk[c] = 0 \/ aspect_risk[c] = 0 \/ veg_risk[c] = 0)
           => final_risk[c] = 0
      /\ (Classified(slope_risk[c]) /\ Classified(aspect_risk[c])
            /\ Classified(veg_risk[c]))
           => final_risk[c] # 0

\* C2 witness: a cell with slope 5, aspect 5 and vegetation NoData is 0.
C2_Witness ==
  /\ Done
  /\ \E c \in DOMAIN final_risk :
       /\ slope_risk[c] = 5 /\ aspect_risk[c] = 5 /\ veg_risk[c] = 0
       /\ final_risk[c] = 0

Below(x, k) == x.cls = "ninf" \/ (Finite(x) /\ x.v < k * AU)

\* The first-match-wins ladder over the half-open slope intervals.
SlopeLadder(x) ==
  IF x.cls = "nan" THEN 0
  ELSE IF Below(x, 5) THEN 1
  ELSE IF Below(x, 15) THEN 2
  ELSE IF Below(x, 25) THEN 3
  ELSE IF Below(x, 35) THEN 4
  ELSE 5

Orders == {p \in [1..5 -> 1..5] : \A i, j \in 1..5 : p[i] = p[j] => i = j}

AspectTable(x) ==
  IF x.cls = "nan" THEN 0
  ELSE IF Finite(x) /\ x.v = -AU THEN 2
  ELSE IF Below(x, 45) THEN 2
  ELSE IF Below(x, 135) THEN 3
  ELSE IF Below(x, 225) THEN 5
  ELSE IF Below(x, 315) THEN 4
  ELSE 2

\* C4: reclassify_aspect maps the flat sentinel -1 to 2, [315,360) and
\* [0,45) to 2, [45,135) to 3, [135,225) to 5, [225,315) to 4, every
\* boundary value in the interval that starts at it, and NoData to 0.
C4_AspectTable ==
  aspect_risk # Unset =>
    \A c \in DOMAIN aspect_risk :
      /\ aspect_risk[c] = AspectTable(aspect_tif[c])
      /\ aspect_tif[c] = FNum(-AU) => aspect_risk[c] = 2
      /\ aspect_tif[c] = FNum(135 * AU) => aspect_risk[c] = 5
      /\ aspect_tif[c] = FNum(F32_134_999) => aspect_risk[c] = 3
      /\ aspect_tif[c] = FNum(225 * AU) => aspect_risk[c] = 4
      /\ aspect_tif[c] = FNum(45 * AU) => aspect_risk[c] = 3
      /\ aspect_tif[c] = FNum(315 * AU) => aspect_risk[c] = 2

\* C4 witness: a flat cell (aspect -1) has been classified 2.
C4_Witness ==
  /\ rpc = "reclassify_vegetation"
  /\ \E c \in DOMAIN aspect_risk :
       aspect_tif[c] = FNum(-AU) /\ aspect_risk[c] = 2

InScale(g) == \A c \in DOMAIN g : g[c] \in 0..5

TerrainComputed == tpc \in {"save_slope", "save_aspect", "done"}

Flat == FNum(-AU)

\* C6: flat-cell override: every cell whose computed slope is below 1.0
\* degree has aspect -1 whatever the signs of the two gradients, and no cell
\* of slope >= 1.0 degree has aspect -1.
C6_FlatOverride ==
  TerrainComputed =>
    \A p \in DOMAIN aspect_degrees :
      /\ Below(slope_degrees[p], 1) => aspect_degrees[p] = Flat
      /\ FGe(slope_degrees[p], Deg(1)) => aspect_degrees[p] # Flat

\* C6 witness: a finished run with a cell of slope in (0, 1) whose gradients
\* are non-zero and of opposite signs and whose aspect is -1, next to a cell
\* of slope >= 1 that kept its bearing.
C6_Witness ==
  /\ tpc = "done"
  /\ \E p, q \in DOMAIN aspect_degrees :
       /\ Finite(dz_dx[p]) /\ dz_dx[p].v < 0
       /\ Finite(dz_dy[p]) /\ dz_dy[p].v > 0
       /\ Finite(slope_degrees[p])
       /\ slope_degrees[p].v > 0 /\ slope_degrees[p].v < Deg(1)
       /\ aspect_degrees[p] = Flat
       /\ FGe(slope_degrees[q], Deg(1))
       /\ Finite(aspect_degrees[q]) /\ aspect_degrees[q].v >= 0

\* C7 (as claimed): for every elevation grid and positive cell size, each
\* output cell that is a number has slope in [0, 90] and aspect equal to -1
\* or in [0, 360): the bearing is never 360 and never a negative value other
\* than -1.
C7_OutputRanges ==
  (TerrainComputed /\ profile.cell_size > 0) =>
    \A p \in DOMAIN aspect_degrees :
      /\ ~IsNaN(slope_degrees[p]) =>
           /\ Finite(slope_degrees[p])
           /\ slope_degrees[p].v >= 0 /\ slope_degrees[p].v <= Deg(90)
      /\ ~IsNaN(aspect_degrees[p]) =>
           /\ Finite(aspect_degrees[p])
           /\ \/ aspect_degrees[p] = Flat
              \/ aspect_degrees[p].v >= 0 /\ aspect_degrees[p].v < Deg(360)

\* C8 (as claimed): at every NoData elevation cell, NaN or the nodata marker
\* of the profile, both the slope output and the aspect output are NoData;
\* stated here for the positive cell sizes only.
C8_NoDataPropagates ==
  (TerrainComputed /\ profile.cell_size > 0) =>
    \A p \in DOMAIN dem :
      IsNoData(dem[p]) => IsNaN(slope_degrees[p]) /\ IsNaN(aspect_degrees[p])

\* C10 (as claimed): with a non-positive cell size or an empty elevation
\* grid, calculate_slope_aspect never returns and writes neither slope.tif
\* nor aspect.tif.
C10_RejectsMalformedInput ==
  (tpc \notin {"check", "read"}
     /\ (profile.cell_size <= 0 \/ profile.height = 0 \/ profile.width = 0))
  => /\ terrain_written = {}
     /\ tpc # "done"

\* C11 (as claimed): calculate_weighted_risk called with three layers that
\* do not all have the same shape ends in an error, computes no combined
\* value and writes no combined grid; stated here for the calls in which no
\* layer is larger than the slope layer, whose raster is the reference the
\* combined grid is written with.
C11_ShapeMismatchIsFatal ==
  (rpc # "overlay"
     /\ ~(GridShape(slope_risk) = GridShape(aspect_risk)
            /\ GridShape(aspect_risk) = GridShape(veg_risk))
     /\ \A g \in {aspect_risk, veg_risk} :
          BroadcastShape(GridShape(slope_risk), GridShape(g)) = GridShape(slope_risk))
  => /\ rpc = "exit1"
     /\ final_risk = Unset
     /\ "fire_risk.tif" \notin risk_written

\* C12: a missing upstream input is fatal before any computation:
\* derive_terrain without a dem_clipped.tif ends with exit status 1 and
\* writes neither slope.tif nor aspect.tif, and build_risk_model without
\* slope.tif or without aspect.tif ends with exit status 1 and writes none of
\* the four risk grids.
C12_MissingInputIsFatal ==
  /\ (tpc \notin {"idle", "check"} /\ ~dem_exists)
       => /\ tpc = "exit1"
          /\ terrain_written = {}
          /\ slope_degrees = Unset /\ aspect_degrees = Unset
  /\ (rpc \notin {"idle", "check"} /\ (~slope_exists \/ ~aspect_exists))
       => /\ rpc = "exit1"
          /\ risk_written = {}
          /\ slope_risk = Unset /\ aspect_risk = Unset
          /\ veg_risk = Unset /\ final_risk = Unset

\* C12 witness: build_risk_model has exited with status 1 where slope.tif
\* exists and aspect.tif does not, with nothing written.
C12_Witness ==
  /\ rpc = "exit1"
  /\ slope_exists /\ ~aspect_exists
  /\ risk_written = {}

ConstantDem ==
  /\ dem # Unset
  /\ \A p, q \in DOMAIN dem : dem[p] = dem[q]
  /\ \A p \in DOMAIN dem : Finite(dem[p]) /\ ~IsNoData(dem[p])

Interior ==
  {p \in DOMAIN dem : /\ 1 < p[1] /\ p[1] < profile.height
                      /\ 1 < p[2] /\ p[2] < profile.width}

C16_CompassDirections ==
  \A a, b \in Tilts :
    (TerrainComputed /\ profile.cell_size > 0 /\ profile.height > 0
       /\ dem = Plane(profile.height, a, b)) =>
      \A p \in Interior :
        /\ (a = 0 /\ b < 0) => aspect_degrees[p] = FNum(Deg(90))
        /\ (a < 0 /\ b = 0) => aspect_degrees[p] = FNum(Deg(180))
        /\ (a = 0 /\ b > 0) => aspect_degrees[p] = FNum(Deg(270))
        /\ (a > 0 /\ b = 0) => aspect_degrees[p] = FNum(0)
        /\ (rpc = "done" /\ a = 0 /\ b < 0) => aspect_risk[p] = 3
        /\ (rpc = "done" /\ a = 0 /\ b > 0) => aspect_risk[p] = 4

\* C17: in build_risk_model.main, with the placeholder vegetation layer and
\* the weights 0.45/0.25/0.30, every non-zero cell of the final grid is 2, 3
\* or 4: levels 1 and 5 are never produced.
C17_NoExtremeLevels ==
  Done => \A c \in DOMAIN final_risk :
            final_risk[c] # 0 => final_risk[c] \in {2, 3, 4}

\* C17 witness: the steepest, south-facing cell (slope risk 5, aspect risk
\* 5) has combined risk 4.
C17_Witness ==
  /\ Done
  /\ \E c \in DOMAIN final_risk :
       slope_risk[c] = 5 /\ aspect_risk[c] = 5 /\ final_risk[c] = 4

Returned == wpc = "returned"

\* C9: the workflow starts the non-skipped steps in the order clip, terrain,
\* risk, each at most once and only when every step started before has
\* ended; once a script ends with a non-zero exit code no later step is
\* started and the workflow has returned a non-zero status; a skipped step
\* is never started.
C9_FailFastOrdered ==
  /\ \A j, k \in 1..Len(started) : j < k => started[j] < started[k]
  /\ Len(finished) \in {Len(started) - 1, Len(started)} \cap Nat
  /\ \A k \in 1..Len(started) : ~Skipped(started[k])
  /\ \A k \in 1..Len(finished) :
       finished[k] # 0 => /\ k = Len(started)
                          /\ wpc = "returned"
                          /\ status \notin {-1, 0}

\* C9 witness: clip succeeded, terrain then failed, step 3 was not skipped
\* and was never started, and the workflow returned 1.
C9_Witness ==
  /\ Returned
  /\ started = <<1, 2>>
  /\ finished[1] = 0 /\ finished[2] # 0
  /\ ~args.skip_risk
  /\ status = 1

\* C18: run_workflow returns status 0 exactly when no step is skipped and
\* all three scripts ended with exit code 0; a run that skips a step returns
\* a non-zero status even when every step it ran succeeded; and the count of
\* successful steps never exceeds the number of steps started.
C18_ZeroOnlyWhenAllThreeRan ==
  /\ success_count <= Len(started)
  /\ Returned =>
       /\ status \in {0, 1}
       /\ status = 0 <=> /\ \A i \in Steps : ~Skipped(i)
                         /\ started = <<1, 2, 3>>
                         /\ finished = <<0, 0, 0>>
       /\ (\E i \in Steps : Skipped(i)) => status # 0

\* C18 witness: step 1 was skipped, steps 2 and 3 both succeeded and the
\* workflow returned 1.
C18_Witness ==
  /\ Returned
  /\ args.skip_clip
  /\ started = <<2, 3>>
  /\ finished = <<0, 0>>
  /\ success_count = 2
  /\ status = 1

\* C19 (as claimed): in a run with no step skipped, a fire_risk.tif written
\* by step 3 comes from a slope.tif and an aspect.tif derived in this run
\* from a dem_clipped.tif that step 1 wrote in this run.
C19_FreshPerRun ==
  ((\A i \in Steps : ~Skipped(i))
     /\ files["fire_risk.tif"] \in {"fresh", "from_old"})
  => /\ files["fire_risk.tif"] = "fresh"
     /\ files["dem_clipped.tif"] = "fresh"

Smallest(s, a, v) == Min(s, Min(a, v))

Largest(s, a, v) == Max(s, Max(a, v))

\* C20: with non-negative weights that sum to 1, the combined risk of a cell
\* whose three layers are in 1..5 lies between the smallest and the largest
\* of the three (three equal layers k give k), and raising one layer while
\* the other two stay fixed never lowers it.
C20_BetweenAndMonotone ==
  Done =>
    \A c \in DOMAIN final_risk :
      LET s == slope_risk[c]
          a == aspect_risk[c]
          v == veg_risk[c]
      IN  (Classified(s) /\ Classified(a) /\ Classified(v)) =>
            /\ Smallest(s, a, v) <= final_risk[c]
            /\ final_risk[c] <= Largest(s, a, v)
            /\ (s = a /\ a = v) => final_risk[c] = s
            /\ \A k \in 1..5 :
                 /\ k >= s => WeightedRiskCell(k, a, v) >= final_risk[c]
                 /\ k >= a => WeightedRiskCell(s, k, v) >= final_risk[c]
                 /\ k >= v => WeightedRiskCell(s, a, k) >= final_risk[c]

\* C20 witness: under the weights 0.2/0.3/0.5 the layers 1, 2, 5 have been
\* combined to 3, between 1 and 5.
C20_Witness ==
  /\ Done
  /\ weights = [slope |-> 20, aspect |-> 30, vegetation |-> 50]
  /\ \E c \in DOMAIN final_risk :
       /\ slope_risk[c] = 1 /\ aspect_risk[c] = 2 /\ veg_risk[c] = 5
       /\ final_risk[c] = 3

====
